---- MODULE Spec2Model ----
(***************************************************************************)
(* Model of litterboxd.py: a Telegram bot that relays new Letterboxd diary *)
(* entries to subscribed chats.  The state is the two module-level dicts   *)
(* (subscribed_users, last_logged_movies), the two JSON files that persist *)
(* them, the position of the polling job check_for_new_movies inside its   *)
(* loop over subscribed_users.items().  What the feeds return is an input  *)
(* of every fetch.                                                         *)
(***************************************************************************)
EXTENDS Integers, Sequences, FiniteSets, TLC

\* ------------------------------------------------------------------ inputs
\* chat ids delivered by the transport (update.message.chat_id, an int)
Dest == {1, 2}
\* Letterboxd usernames
Ident == {"alice", "bob"}
\* feed entries (title, link)
ItemA == <<"A", "x1">>
ItemB == <<"B", "x2">>
Title == {"A", "B"}
\* what feedparser.parse may return as feed.entries, newest first; <<>> also
\* stands for a fetch that failed
FeedLists == {<<>>, <<ItemA>>, <<ItemB>>, <<ItemB, ItemA>>}
\* context.args of a command
Args == {<<>>} \cup {<<i>> : i \in Ident}
\* cap on the slots of the dict's entry array while an iteration is open
MaxSlots == 2
\* cap on the failures the environment injects (a save or a send that raises,
\* a process that dies inside a save)
MaxFaults == 1
\* cap on the times the process is started again
MaxBoots == 1

\* ------------------------------------------------------------- vocabulary
None == "<None>"
Dummy == "<dummy>"
IntKey(d) == [ty |-> "int", id |-> d]
StrKey(d) == [ty |-> "str", id |-> d]

VARIABLES
  up,                  \* the process is running
  load_error,          \* the last start died in load_data
  subscribed_users,    \* the dict, as its entry array: <<[k, v]>>, v = Dummy when deleted
  last_logged_movies,  \* username -> title or None
  users_json,          \* the file users.json
  last_json,           \* the file last_logged_movies.json
  pc,                  \* check_for_new_movies: "idle", "iter" (in the loop), "send" (awaiting send_message)
  it,                  \* the dict item iterator: [pos, used, len]
  cur,                 \* loop variables: [chat_id, username, title, link] (title None: no movies)
  tick_result,         \* how the run of the job that just ended ended: "done" or the exception
  outbox,              \* send_message calls of the run that have returned
  \* observations of a run of the job, read by the properties only: they are
  \* kept while nothing but the job runs, until the first event after the run
  snap,                \* last_logged_movies when the run started
  fetched,             \* username -> the titles (None: no movies) the fetches of the run gave
  quiet,               \* no subscribe, unsubscribe or restart since the run started
  prev,                \* the run before, when nothing happened between the two (runs are paired)
  want,                \* chat id -> username of its last /subscribe call, None before it
  crash_info,          \* the files before, and the files wanted by, the save the process died in
  faults,              \* failures injected so far
  boots,               \* restarts so far
  watch,               \* what is observed: "runs" of the job, or "calls" of the handlers
  last                 \* the handler call just made: [op, d, arg, msg], msg being its reply

vars == <<up, load_error, subscribed_users, last_logged_movies, users_json,
          last_json, pc, it, cur, tick_result, outbox,
          snap, fetched, quiet, prev, want, crash_info, faults, boots,
          watch, last>>
\* all but the record of the last call
rest == <<up, load_error, subscribed_users, last_logged_movies, users_json,
          last_json, pc, it, cur, tick_result, outbox,
          snap, fetched, quiet, prev, want, crash_info, faults, boots, watch>>
mem == <<subscribed_users, last_logged_movies>>
files == <<users_json, last_json>>
job == <<pc, it, cur, tick_result, outbox>>
obs == <<snap, fetched, prev>>

\* ------------------------------------------------------------ the dict
\* A CPython dict keeps its items in an entry array in insertion order; del
\* leaves a dummy slot behind, and an int key never equals a str key.
LiveIdx(su) == {n \in 1..Len(su) : su[n].v # Dummy}
Used(su) == Cardinality(LiveIdx(su))
Find(su, k) == IF \E n \in LiveIdx(su) : su[n].k = k
               THEN CHOOSE n \in LiveIdx(su) : su[n].k = k
               ELSE 0
Contains(su, k) == Find(su, k) # 0
GetItem(su, k) == su[Find(su, k)].v
SetItem(su, k, v) == IF Contains(su, k)
                     THEN [su EXCEPT ![Find(su, k)].v = v]
                     ELSE Append(su, [k |-> k, v |-> v])
\* a del that is forgotten
DelItemNot(su, k) == su
DelItem(su, k) == [su EXCEPT ![Find(su, k)].v = Dummy]
IsLive(e) == e.v # Dummy
\* dummy slots are observable only through an open iterator
Pack(su) == SelectSeq(su, IsLive)
Settle(su, pcNext) == IF pcNext = "idle" THEN Pack(su) ELSE su
EmptyDict == <<>>
NoMovies == [i \in Ident |-> None]
NoIter == [pos |-> 0, used |-> 0, len |-> 0]
NoCur == [chat_id |-> IntKey(0), username |-> None, title |-> None, link |-> None]

\* ------------------------------------------------------------ the files
Absent == [st |-> "absent", data |-> <<>>]
Corrupt == [st |-> "corrupt", data |-> <<>>]
\* json.dump writes every key as a string: 42 and "42" both become "42"
JsonKey(k) == StrKey(k.id)
DumpUsers(su) == [st |-> "ok",
                  data |-> [n \in 1..Len(Pack(su)) |->
                               <<JsonKey(Pack(su)[n].k), Pack(su)[n].v>>]]
DumpLast(m) == [st |-> "ok",
                data |-> {<<i, m[i]>> : i \in {j \in Ident : m[j] # None}}]
\* json.load builds the dict member by member; a repeated key keeps its
\* first place and takes the last value
RECURSIVE ParseUsers(_)
ParseUsers(pairs) ==
  IF pairs = <<>> THEN EmptyDict
  ELSE SetItem(ParseUsers(SubSeq(pairs, 1, Len(pairs) - 1)),
               pairs[Len(pairs)][1], pairs[Len(pairs)][2])
ParseLast(ps) == [i \in Ident |-> IF \E p \in ps : p[1] = i
                                  THEN (CHOOSE p \in ps : p[1] = i)[2]
                                  ELSE None]

\* what load_data makes of the two files: [ok, su, llm]; a file that exists
\* and is not valid JSON raises
LoadFrom(uj, lj) ==
  LET su == IF uj.st = "ok" THEN ParseUsers(uj.data) ELSE EmptyDict
      llm == IF lj.st = "ok" THEN ParseLast(lj.data) ELSE NoMovies
  IN  IF uj.st = "corrupt" THEN [ok |-> FALSE, su |-> EmptyDict, llm |-> NoMovies]
      ELSE IF lj.st = "corrupt" THEN [ok |-> FALSE, su |-> su, llm |-> NoMovies]
      ELSE [ok |-> TRUE, su |-> su, llm |-> llm]
load_data == LoadFrom(users_json, last_json)

\* save_data stops at point pt: 0 open(users.json) raised, 1 users.json
\* truncated or partly written, 2 users.json written and the second open
\* raised, 3 last_logged_movies.json truncated or partly written, 4 done
save_data(su, llm, pt) ==
  [users |-> IF pt = 0 THEN users_json
             ELSE IF pt = 1 THEN Corrupt ELSE DumpUsers(su),
   last  |-> IF pt <= 2 THEN last_json
             ELSE IF pt = 3 THEN Corrupt ELSE DumpLast(llm)]
\* how a save ends: completes, raises (OSError), or the process dies in it
SaveOutcomes == {[pt |-> 4, end |-> "ok"]}
                \cup {[pt |-> p, end |-> "raise"] : p \in 0..3}
                \cup {[pt |-> p, end |-> "crash"] : p \in 1..3}

\* ------------------------------------------------------------ the feed
Take(l, n) == SubSeq(l, 1, IF Len(l) < n THEN Len(l) ELSE n)
\* entries: what feedparser.parse(rss_url) returned as feed.entries
get_latest_movies(entries, count) == IF entries # <<>> THEN Take(entries, count) ELSE <<>>


\* ------------------------------------------------------------ observations
NoSnap == NoMovies
NoFetch == [i \in Ident |-> {}]
NoPrev == [ok |-> FALSE, title |-> [i \in Ident |-> None], cnt |-> [i \in Ident |-> 0]]
NoLast == [op |-> None, d |-> 0, arg |-> None, msg |-> None]
NoCrash == [set |-> FALSE, before |-> <<Absent, Absent>>, wanted |-> <<Absent, Absent>>]
\* send_message calls of the run for username i
Emitted(box, i) == Cardinality({n \in 1..Len(box) : box[n].username = i})

Init ==
  /\ up = TRUE /\ load_error = FALSE
  /\ subscribed_users = EmptyDict
  /\ last_logged_movies = NoMovies
  /\ users_json = Absent /\ last_json = Absent
  /\ pc = "idle" /\ it = NoIter /\ cur = NoCur
  /\ tick_result = "none" /\ outbox = <<>>
  /\ snap = NoSnap /\ fetched = NoFetch /\ quiet = FALSE /\ prev = NoPrev
  /\ want = [d \in Dest |-> None]
  /\ crash_info = NoCrash
  /\ faults = 0 /\ boots = 0
  /\ watch = "runs" /\ last = NoLast

\* the same start, the handler calls being observed instead of the job's runs
InitCalls ==
  /\ up = TRUE /\ load_error = FALSE
  /\ subscribed_users = EmptyDict
  /\ last_logged_movies = NoMovies
  /\ users_json = Absent /\ last_json = Absent
  /\ pc = "idle" /\ it = NoIter /\ cur = NoCur
  /\ tick_result = "none" /\ outbox = <<>>
  /\ snap = NoSnap /\ fetched = NoFetch /\ quiet = FALSE /\ prev = NoPrev
  /\ want = [d \in Dest |-> None]
  /\ crash_info = NoCrash
  /\ faults = 0 /\ boots = 0
  /\ watch = "calls" /\ last = NoLast

\* a step that is no handler call
NoCall == last' = NoLast /\ UNCHANGED watch
\* the handler op was called and answered msg ("OSError": save_data raised
\* before the reply); d and arg are the chat id and the username of a call
\* that reads or writes subscribed_users, 0 and None otherwise
Call(op, d, arg, msg) ==
  /\ last' = IF watch = "calls" THEN [op |-> op, d |-> d, arg |-> arg, msg |-> msg]
             ELSE NoLast
  /\ UNCHANGED watch

\* the process is gone: the module-level dicts are those of a fresh import
Die ==
  /\ up' = FALSE
  /\ subscribed_users' = EmptyDict /\ last_logged_movies' = NoMovies
  /\ pc' = "idle" /\ it' = NoIter /\ cur' = NoCur
  /\ tick_result' = "none" /\ outbox' = <<>>
  /\ snap' = NoSnap /\ fetched' = NoFetch /\ quiet' = FALSE /\ prev' = NoPrev
  /\ NoCall

\* a failure may be injected: where the handler calls are observed none is
CanFail == faults < MaxFaults /\ watch = "runs"

\* save_data() called with the dicts su, llm, ending as o says
Persist(su, llm, o) ==
  /\ o.end # "ok" => CanFail
  /\ faults' = IF o.end # "ok" THEN faults + 1 ELSE faults
  /\ users_json' = save_data(su, llm, o.pt).users
  /\ last_json' = save_data(su, llm, o.pt).last
  /\ crash_info' = IF o.end = "crash"
                   THEN [set |-> TRUE, before |-> <<users_json, last_json>>,
                         wanted |-> <<DumpUsers(su), DumpLast(llm)>>]
                   ELSE NoCrash

\* an event other than the job's own: the run is no longer observed
Disturb ==
  /\ quiet' = FALSE /\ prev' = NoPrev
  /\ outbox' = <<>> /\ snap' = NoSnap /\ fetched' = NoFetch
  /\ tick_result' = IF pc = "idle" THEN "none" ELSE tick_result
  /\ it' = IF pc = "idle" THEN NoIter ELSE it
  /\ UNCHANGED <<pc, cur>>

\* ------------------------------------------------------------ commands
\* handlers run on the event loop: between two turns of the job's loop only
\* while the job awaits send_message
CanRun == up /\ pc # "iter"

\* what each handler answers (reply_text, inline_query.answer)
start_reply == "send_username"
fetch_movie_reply(args, entries) ==
  IF args # <<>>
  THEN IF get_latest_movies(entries, 5) # <<>>
       THEN [msg |-> "movies", arg |-> get_latest_movies(entries, 5)]
       ELSE [msg |-> "no_movies", arg |-> <<>>]
  ELSE [msg |-> "provide_username", arg |-> <<>>]
\* a reply that does not look at the arguments
subscribe_reply_always(args) == [msg |-> "subscribed", arg |-> args]
subscribe_reply(args) ==
  IF args # <<>> THEN [msg |-> "subscribed", arg |-> <<args[1]>>]
  ELSE [msg |-> "provide_username", arg |-> <<>>]
unsubscribe_reply(d) ==
  IF Contains(subscribed_users, IntKey(d)) THEN "unsubscribed" ELSE "not_subscribed"
list_reply(d) ==
  IF Contains(subscribed_users, IntKey(d))
  THEN [msg |-> "subscribed_to", arg |-> <<GetItem(subscribed_users, IntKey(d))>>]
  ELSE [msg |-> "not_subscribed_any", arg |-> <<>>]
inline_reply(query, entries) ==
  IF query # "" /\ get_latest_movies(entries, 1) # <<>>
  THEN [msg |-> "inline", arg |-> get_latest_movies(entries, 1)]
  ELSE [msg |-> "none", arg |-> <<>>]

start(d) ==
  /\ CanRun
  /\ Call("start", 0, None, start_reply)
  /\ UNCHANGED rest

\* a lookup that stores what it found as the marker
fetch_movie_marking(d, args, entries) ==
  /\ CanRun
  /\ Call("rss", 0, None, fetch_movie_reply(args, entries).msg)
  /\ last_logged_movies' =
       IF args # <<>> /\ get_latest_movies(entries, 5) # <<>>
       THEN [last_logged_movies EXCEPT ![args[1]] = get_latest_movies(entries, 5)[1][1]]
       ELSE last_logged_movies
  /\ UNCHANGED <<up, load_error, subscribed_users, files, job, obs, quiet, want,
                 crash_info, faults, boots>>

fetch_movie(d, args, entries) ==
  /\ CanRun
  /\ Call("rss", 0, None, fetch_movie_reply(args, entries).msg)
  /\ UNCHANGED rest

subscribe(d, args, o) ==
  /\ CanRun
  /\ IF args # <<>>
     THEN LET chat_id == IntKey(d)
              su == SetItem(subscribed_users, chat_id, args[1])
          IN  /\ Len(su) <= MaxSlots
              /\ Persist(su, last_logged_movies, o)
              /\ want' = [want EXCEPT ![d] = args[1]]
              /\ IF o.end = "crash" THEN Die
                 ELSE /\ subscribed_users' = Settle(su, pc)
                      /\ Disturb
                      /\ Call("subscribe", d, args[1],
                              IF o.end = "ok" THEN subscribe_reply(args).msg ELSE "OSError")
                      /\ UNCHANGED <<up, last_logged_movies>>
              /\ UNCHANGED <<load_error, boots>>
     ELSE /\ o.end = "ok"
          /\ Call("subscribe", d, None, subscribe_reply(args).msg)
          /\ UNCHANGED rest

unsubscribe(d, o) ==
  /\ CanRun
  /\ LET chat_id == IntKey(d) IN
     IF Contains(subscribed_users, chat_id)
     THEN LET su == DelItem(subscribed_users, chat_id)
          IN  /\ Persist(su, last_logged_movies, o)
              /\ IF o.end = "crash" THEN Die
                 ELSE /\ subscribed_users' = Settle(su, pc)
                      /\ Disturb
                      /\ Call("unsubscribe", d, None,
                              IF o.end = "ok" THEN unsubscribe_reply(d) ELSE "OSError")
                      /\ UNCHANGED <<up, last_logged_movies>>
              /\ want' = [want EXCEPT ![d] = None]
              /\ UNCHANGED <<load_error, boots>>
     ELSE /\ o.end = "ok"
          /\ want' = [want EXCEPT ![d] = None]
          /\ Disturb
          /\ Call("unsubscribe", d, None, unsubscribe_reply(d))
          /\ UNCHANGED <<up, load_error, mem, files, crash_info, faults, boots>>

list_subscriptions(d) ==
  /\ CanRun
  /\ Call("list", d, None, list_reply(d).msg)
  /\ UNCHANGED rest

\* query is the text typed after the bot's name; "" returns at once
inline_query(query, entries) ==
  /\ CanRun
  /\ Call("inline", 0, None, inline_reply(query, entries).msg)
  /\ UNCHANGED rest

\* ------------------------------------------------------------ the job
\* a loop that is left after its first item
NextSlotOnce(su, pos) ==
  IF pos = 1 /\ LiveIdx(su) # {}
  THEN CHOOSE n \in LiveIdx(su) : \A m \in LiveIdx(su) : n <= m
  ELSE 0
\* next(iterator): the first live slot at or after pos, 0 when there is none
NextSlot(su, pos) ==
  IF \E n \in LiveIdx(su) : n >= pos
  THEN CHOOSE n \in LiveIdx(su) : n >= pos /\ \A m \in LiveIdx(su) : m >= pos => n <= m
  ELSE 0
\* a comparison that always finds the movie new
IsNewAlways(username, title) == TRUE
\* line 101: the movie is new when the stored title differs (None when absent)
IsNew(username, title) == last_logged_movies[username] # title
\* lines 98-100
TitleOf(movies) == IF movies # <<>> THEN movies[1][1] ELSE None
LinkOf(movies) == IF movies # <<>> THEN movies[1][2] ELSE None
\* the test on line 98 dropped
NotifyUnguarded(username, movies) == IsNew(username, TitleOf(movies))
\* lines 98-101: a message is due
Notify(username, movies) == movies # <<>> /\ IsNew(username, movies[1][1])
\* the dict replaced by one that holds the new marker only
SetMarkerOnly(username, title) == [i \in Ident |-> IF i = username THEN title ELSE None]
\* line 103
SetMarker(username, title) == [last_logged_movies EXCEPT ![username] = title]

\* the coroutine returns or raises
Finish(result) ==
  /\ pc' = "idle" /\ cur' = NoCur
  /\ tick_result' = result
  /\ subscribed_users' = Pack(subscribed_users)

\* what is kept of a run for the run that follows it at once: the usernames
\* whose fetches all gave one title, new when the run started, and the
\* send_message calls the run made for them
OneTitle(i) == IF \E t \in Title : fetched[i] = {t} /\ snap[i] # t
               THEN CHOOSE t \in Title : fetched[i] = {t}
               ELSE None
RunDigest == [ok |-> TRUE,
              title |-> [i \in Ident |-> OneTitle(i)],
              cnt |-> [i \in Ident |-> IF OneTitle(i) # None THEN Emitted(outbox, i) ELSE 0]]

\* a scheduler that starts a run while the one before awaits
TickStartAnyway ==
  /\ up /\ pc \in {"idle", "send"}
  /\ pc' = "iter" /\ cur' = NoCur
  /\ it' = [pos |-> 1, used |-> Used(subscribed_users), len |-> Used(subscribed_users)]
  /\ tick_result' = "running" /\ outbox' = <<>>
  /\ snap' = last_logged_movies
  /\ fetched' = NoFetch
  /\ quiet' = FALSE
  /\ NoCall
  /\ prev' = NoPrev
  /\ UNCHANGED <<up, load_error, mem, files, want, crash_info, faults, boots>>

\* the scheduler starts check_for_new_movies (one instance at a time)
TickStart ==
  /\ up /\ pc = "idle"
  /\ pc' = "iter" /\ cur' = NoCur
  /\ it' = [pos |-> 1, used |-> Used(subscribed_users), len |-> Used(subscribed_users)]
  /\ tick_result' = "running" /\ outbox' = <<>>
  /\ snap' = last_logged_movies
  /\ fetched' = NoFetch
  /\ quiet' = (watch = "runs")
  /\ NoCall
  /\ prev' = IF quiet /\ tick_result # "none" /\ ~prev.ok THEN RunDigest ELSE NoPrev
  /\ UNCHANGED <<up, load_error, mem, files, want, crash_info, faults, boots>>

\* one turn of the for loop, up to the await or to the next turn; entries is
\* what the feed of the item's username returns (read only when an item is left)
TickNext(entries) ==
  /\ up /\ pc = "iter"
  /\ IF it.used # Used(subscribed_users)
     THEN Finish("RuntimeError") /\ UNCHANGED <<it, fetched>>
     ELSE LET n == NextSlot(subscribed_users, it.pos) IN
          IF n = 0 THEN Finish("done") /\ UNCHANGED <<it, fetched>>
          ELSE IF it.len = 0 THEN Finish("RuntimeError") /\ UNCHANGED <<it, fetched>>
          ELSE LET chat_id == subscribed_users[n].k
                   username == subscribed_users[n].v
                   movies == get_latest_movies(entries, 1)
               IN  /\ it' = [it EXCEPT !.pos = n + 1, !.len = @ - 1]
                   /\ fetched' = IF quiet
                                 THEN [fetched EXCEPT ![username] = @ \cup {TitleOf(movies)}]
                                 ELSE fetched
                   /\ cur' = [chat_id |-> chat_id, username |-> username,
                              title |-> TitleOf(movies), link |-> LinkOf(movies)]
                   /\ pc' = IF Notify(username, movies) THEN "send" ELSE "iter"
                   /\ UNCHANGED <<tick_result, subscribed_users>>
  /\ NoCall
  /\ UNCHANGED <<up, load_error, last_logged_movies, files, outbox,
                 snap, quiet, prev, want, crash_info, faults, boots>>

\* the call on line 102, as the chat sees it
Sent(ok) == [to |-> cur.chat_id.id, username |-> cur.username,
             title |-> cur.title, link |-> cur.link, ok |-> ok]

\* send_message returned: lines 103-104, then back to the loop
SendOk(o) ==
  /\ up /\ pc = "send"
  /\ LET llm == SetMarker(cur.username, cur.title) IN
     /\ Persist(subscribed_users, llm, o)
     /\ IF o.end = "crash" THEN Die
        ELSE /\ last_logged_movies' = llm
             /\ outbox' = IF quiet THEN Append(outbox, Sent(TRUE)) ELSE outbox
             /\ IF o.end = "ok"
                THEN pc' = "iter" /\ cur' = NoCur /\ UNCHANGED <<it, tick_result, subscribed_users>>
                ELSE Finish("OSError") /\ UNCHANGED it
             /\ NoCall
             /\ UNCHANGED <<up, snap, fetched, quiet, prev>>
  /\ UNCHANGED <<load_error, want, boots>>

\* send_message raised (the chat blocked the bot, the network failed)
SendFail ==
  /\ up /\ pc = "send"
  /\ CanFail
  /\ faults' = faults + 1
  /\ outbox' = IF quiet THEN Append(outbox, Sent(FALSE)) ELSE outbox
  /\ Finish("TelegramError") /\ UNCHANGED it
  /\ NoCall
  /\ UNCHANGED <<up, load_error, last_logged_movies, files, 
                 snap, fetched, quiet, prev, want, crash_info, boots>>

\* ------------------------------------------------------------ the process
\* the process is stopped
Stop ==
  /\ up /\ boots < MaxBoots
  /\ Die
  /\ crash_info' = NoCrash
  /\ UNCHANGED <<load_error, files, want, faults, boots>>

\* main(): load_data() before anything else
Start ==
  /\ ~up /\ boots < MaxBoots
  /\ boots' = boots + 1
  /\ IF load_data.ok
     THEN /\ up' = TRUE /\ load_error' = FALSE
          /\ subscribed_users' = load_data.su
          /\ last_logged_movies' = load_data.llm
     ELSE /\ load_error' = TRUE
          /\ UNCHANGED <<up, mem>>
  /\ crash_info' = NoCrash
  /\ NoCall
  /\ UNCHANGED <<files, job, obs, quiet, want, faults>>

Next ==
  \/ \E d \in Dest : start(d)
  \/ \E d \in Dest, args \in Args, entries \in FeedLists : fetch_movie(d, args, entries)
  \/ \E d \in Dest, args \in Args, o \in SaveOutcomes : subscribe(d, args, o)
  \/ \E d \in Dest, o \in SaveOutcomes : unsubscribe(d, o)
  \/ \E d \in Dest : list_subscriptions(d)
  \/ \E query \in Ident \cup {""}, entries \in FeedLists : inline_query(query, entries)
  \/ TickStart
  \/ \E entries \in FeedLists : TickNext(entries)
  \/ \E o \in SaveOutcomes : SendOk(o)
  \/ SendFail
  \/ Stop
  \/ Start

Spec == Init /\ [][Next]_vars

\* the steps where the handler calls are observed
NextCalls ==
  \/ \E d \in Dest : start(d)
  \/ \E d \in Dest, args \in Args, entries \in FeedLists : fetch_movie(d, args, entries)
  \/ \E d \in Dest, args \in Args, o \in SaveOutcomes : subscribe(d, args, o)
  \/ \E d \in Dest, o \in SaveOutcomes : unsubscribe(d, o)
  \/ \E d \in Dest : list_subscriptions(d)
  \/ \E query \in Ident \cup {""}, entries \in FeedLists : inline_query(query, entries)
  \/ TickStart
  \/ \E entries \in FeedLists : TickNext(entries)
  \/ \E o \in SaveOutcomes : SendOk(o)
  \/ Stop
  \/ Start

SpecCalls == InitCalls /\ [][NextCalls]_vars

\* ------------------------------------------------------------ properties
\* a run of the job has ended and nothing has happened since
Ended == up /\ pc = "idle" /\ tick_result \notin {"none", "running"}
\* the run ended without a send or a save that raised
Faultless(result) == result \notin {"TelegramError", "OSError"}
\* the items of the dict whose username is i
Watchers(i) == {n \in LiveIdx(subscribed_users) : subscribed_users[n].v = i}
\* the send_message calls of the run that told chat d about title t of i and returned
Delivered(d, i, t) == {m \in 1..Len(outbox) : /\ outbox[m].to = d
                                             /\ outbox[m].username = i
                                             /\ outbox[m].title = t
                                             /\ outbox[m].ok}
IntKeyed(su) == \A n \in 1..Len(su) : su[n].k.ty = "int"

\* C1: when a run of the job that nothing disturbed has ended normally, every
\* username that had no marker when the run started and whose fetches all gave
\* title t has had exactly one message delivered to every chat subscribed to
\* it, and its marker is t.
C1_EveryWatcherNotified ==
  (quiet /\ Ended /\ tick_result = "done") =>
    \A i \in Ident, t \in Title :
      (snap[i] = None /\ fetched[i] = {t}) =>
        /\ \A n \in Watchers(i) :
             Cardinality(Delivered(subscribed_users[n].k.id, i, t)) = 1
        /\ last_logged_movies[i] = t

\* C2: when two runs of the job follow each other with no command between
\* them, for every username whose marker differed from title t when the first
\* run started and whose fetches gave t in both runs, the first run called
\* send_message once for it and the second run not at all.
C2_Dedup ==
  (quiet /\ Ended /\ prev.ok) =>
    \A i \in Ident :
      (prev.title[i] # None /\ fetched[i] = {prev.title[i]}) =>
        prev.cnt[i] = 1 /\ Emitted(outbox, i) = 0

\* C3: when a run of the job in which a send_message call raised has ended,
\* the loop has taken every item of the dict.
C3_SendFailureIsolated ==
  (quiet /\ Ended /\ \E m \in 1..Len(outbox) : ~outbox[m].ok) => it.len = 0

\* C4: no run of the job ends with the RuntimeError that the dict iterator
\* raises when a subscribe or unsubscribe changed the dict during the await.
C4_CommandsTolerated == tick_result # "RuntimeError"

\* C5: for the dicts of every reachable state whose chat ids are the ints the
\* transport delivers, load_data applied to the files a completed save_data
\* writes gives back these dicts, keys of the same type included.
C5_RoundTrip ==
  (up /\ IntKeyed(subscribed_users)) =>
    LET f == save_data(subscribed_users, last_logged_movies, 4)
    IN  LoadFrom(f.users, f.last) =
          [ok |-> TRUE, su |-> Pack(subscribed_users), llm |-> last_logged_movies]

\* C6: in every turn of the loop that fetches a latest movie (title, link) for
\* an item (chat_id, username), send_message is called, with that title and
\* link, exactly when the marker of username differs from the title, and the
\* marker equals the title when the loop goes on; when the call returns, the
\* marker is the title and the message went to chat_id.
C6_NotifyIffNew ==
  [][ /\ (up /\ pc = "iter" /\ it'.len # it.len /\ cur'.title # None) =>
           /\ <<cur'.title, cur'.link>> \in {ItemA, ItemB}
           /\ (pc' = "send") <=> (last_logged_movies[cur'.username] # cur'.title)
           /\ (pc' = "iter") => (last_logged_movies'[cur'.username] = cur'.title)
      /\ (pc = "send" /\ up' /\ pc' # "send" /\ tick_result' # "TelegramError") =>
           /\ last_logged_movies'[cur.username] = cur.title
           /\ quiet => outbox' = Append(outbox, [to |-> cur.chat_id.id,
                                                 username |-> cur.username,
                                                 title |-> cur.title,
                                                 link |-> cur.link, ok |-> TRUE])
    ]_vars
\* the marker of a username went from A to B in a run that sent one message, for B
C6_Witness ==
  /\ quiet /\ up /\ pc = "iter" /\ Len(outbox) = 1
  /\ \E i \in Ident : /\ snap[i] = "A" /\ last_logged_movies[i] = "B"
                      /\ outbox[1] = [to |-> 1, username |-> i, title |-> "B",
                                      link |-> "x2", ok |-> TRUE]

\* C7: when a run of the job that nothing disturbed has ended without a send
\* or a save that raised, for two subscribed usernames X and Y, X's fetches
\* having given no movie: Y was fetched, and if Y's fetches gave a title that
\* differed from Y's marker at the start, a chat subscribed to Y got the
\* message and Y's marker is that title.
C7_FetchFailureIsolated ==
  (quiet /\ Ended /\ Faultless(tick_result)) =>
    \A X \in Ident, Y \in Ident :
      (X # Y /\ Watchers(X) # {} /\ Watchers(Y) # {} /\ fetched[X] = {None}) =>
        /\ fetched[Y] # {}
        /\ \A t \in Title :
             (fetched[Y] = {t} /\ snap[Y] # t) =>
               /\ \E n \in Watchers(Y) : Delivered(subscribed_users[n].k.id, Y, t) # {}
               /\ last_logged_movies[Y] = t
\* alice, fetched first, gave nothing; bob's chat got bob's new movie
C7_Witness ==
  /\ quiet /\ Ended /\ tick_result = "done"
  /\ Len(subscribed_users) = 2
  /\ subscribed_users[1].v = "alice" /\ subscribed_users[2].v = "bob"
  /\ fetched["alice"] = {None} /\ fetched["bob"] = {"A"} /\ snap["bob"] = None
  /\ Delivered(subscribed_users[2].k.id, "bob", "A") # {}
  /\ last_logged_movies["bob"] = "A"

\* C8: after the process died inside save_data, load_data succeeds and gives,
\* for each dict, what the file held before that save or what the save was
\* writing.
C8_CrashConsistent ==
  crash_info.set =>
    LET now == LoadFrom(users_json, last_json)
        before == LoadFrom(crash_info.before[1], crash_info.before[2])
        wanted == LoadFrom(crash_info.wanted[1], crash_info.wanted[2])
    IN  /\ now.ok
        /\ now.su \in {before.su, wanted.su}
        /\ now.llm \in {before.llm, wanted.llm}

\* C9: while the process runs, the dicts in memory are the dicts load_data
\* would read from the files (chat ids compared as JSON writes them), also
\* after a save_data that raised.
C9_MemoryIsDurable ==
  up => /\ load_data.ok
        /\ load_data.su = ParseUsers(DumpUsers(subscribed_users).data)
        /\ load_data.llm = last_logged_movies

\* C10: while the process runs, the dict holds at most one item for each chat
\* id, and its username is the one of the chat's last /subscribe.
C10_OneEntryPerDest ==
  up => \A d \in Dest :
          LET es == {n \in LiveIdx(subscribed_users) : subscribed_users[n].k.id = d}
          IN  /\ Cardinality(es) <= 1
              /\ want[d] # None => \A n \in es : subscribed_users[n].v = want[d]

\* the items of the dict for chat d, whatever the type of their key
EntriesOf(su, d) == {n \in LiveIdx(su) : su[n].k.id = d}

\* C11: after /subscribe a from chat d was answered, once or twice in a row,
\* the dict holds one item for d, with a; and when the same call is made and
\* answered again at once, it leaves both dicts and both files as the first
\* call left them.
C11_SubscribeIdempotent ==
  [][ /\ (last'.op = "subscribe" /\ last'.msg = "subscribed") =>
           /\ Cardinality(EntriesOf(subscribed_users', last'.d)) = 1
           /\ \A n \in EntriesOf(subscribed_users', last'.d) :
                subscribed_users'[n].v = last'.arg
      /\ ( /\ last.op = "subscribe" /\ last.msg = "subscribed"
           /\ last'.op = "subscribe" /\ last'.msg = "subscribed"
           /\ last'.d = last.d /\ last'.arg = last.arg ) =>
           mem' = mem /\ files' = files
    ]_vars

\* C12: a /list of chat d that follows an /unsubscribe of d at once answers
\* that d is not subscribed; an /unsubscribe of d that follows one at once
\* answers "not subscribed" and leaves both dicts and both files unchanged.
C12_UnsubscribeThenList ==
  [][ /\ (last.op = "unsubscribe" /\ last'.op = "list" /\ last'.d = last.d) =>
           last'.msg = "not_subscribed_any"
      /\ (last.op = "unsubscribe" /\ last'.op = "unsubscribe" /\ last'.d = last.d) =>
           last'.msg = "not_subscribed" /\ mem' = mem /\ files' = files
    ]_vars
\* chat 1 was told it is not subscribed, after its subscription was removed
\* and the empty dict written
C12_Witness ==
  /\ up /\ last.op \in {"list", "unsubscribe"} /\ last.d = 1
  /\ last.msg \in {"not_subscribed_any", "not_subscribed"}
  /\ want[1] = None /\ users_json.st = "ok" /\ users_json.data = <<>>

\* C13: a /list, a /rss lookup and an inline query leave both dicts and both
\* files unchanged, whatever the feed returns.
C13_ReadsArePure ==
  [][ last'.op \in {"list", "rss", "inline"} => mem' = mem /\ files' = files ]_vars
\* a lookup that found movies, made while a chat is subscribed and a marker set
C13_Witness ==
  /\ up /\ last.op = "rss" /\ last.msg = "movies"
  /\ subscribed_users # EmptyDict
  /\ \E i \in Ident : last_logged_movies[i] # None

\* C14: a /subscribe without a username answers with the prompt for one and
\* leaves both dicts and both files unchanged.
C14_NoArgumentNoChange ==
  [][ (last'.op = "subscribe" /\ last'.arg = None) =>
        last'.msg = "provide_username" /\ mem' = mem /\ files' = files ]_vars
\* chat 1, subscribed, called /subscribe without a username
C14_Witness ==
  /\ up /\ last = [op |-> "subscribe", d |-> 1, arg |-> None, msg |-> "provide_username"]
  /\ Contains(subscribed_users, IntKey(1))

\* C15: when a run of the job has ended in a send_message call that raised,
\* the marker of the call's username is the call's title, in memory and in
\* last_logged_movies.json.
C15_MarkerAdvancesOnFailure ==
  (quiet /\ Ended /\ tick_result = "TelegramError") =>
    /\ last_logged_movies[outbox[Len(outbox)].username] = outbox[Len(outbox)].title
    /\ last_json = DumpLast(last_logged_movies)

\* C16: a turn of the loop whose fetch gives no movie calls send_message for
\* nothing, ends the run with no exception, and leaves both dicts and both
\* files unchanged.
C16_EmptyFetchSkipped ==
  [][ (up /\ up' /\ pc = "iter" /\ it'.len # it.len /\ cur'.title = None) =>
        /\ pc' = "iter" /\ tick_result' = "running" /\ outbox' = outbox
        /\ mem' = mem /\ files' = files
    ]_vars
\* the fetch for a username that has a marker gave no movie
C16_Witness ==
  /\ up /\ pc = "iter" /\ cur.username # None /\ cur.title = None
  /\ last_logged_movies[cur.username] # None

\* C17: while the job awaits send_message, the marker it compared still
\* differs from the title it is about to store, no step but its own resumption
\* writes last_logged_movies or moves its loop, and no other run of the job
\* starts.
C17_NoLostUpdate ==
  [][ /\ (up' /\ pc' = "send") => last_logged_movies'[cur'.username] # cur'.title
      /\ (up /\ up' /\ pc = "send") =>
           /\ it' = it
           /\ pc' = "send" => (last_logged_movies' = last_logged_movies /\ cur' = cur)
    ]_vars
\* a handler changed the dict while the job awaited
C17_Witness ==
  /\ up /\ pc = "send" /\ watch = "runs" /\ ~quiet
  /\ it.used # Used(subscribed_users)

\* C18: no step of the running process takes a marker away, and an
\* /unsubscribe leaves last_logged_movies as it is.
C18_MarkersNeverDeleted ==
  [][ /\ (up /\ up') =>
           \A i \in Ident : last_logged_movies[i] # None => last_logged_movies'[i] # None
      /\ last'.op = "unsubscribe" => last_logged_movies' = last_logged_movies
    ]_vars
\* the last subscriber of a username has left and its marker is still there
C18_Witness ==
  /\ up /\ last.op = "unsubscribe" /\ last.msg = "unsubscribed"
  /\ subscribed_users = EmptyDict
  /\ \E i \in Ident : last_logged_movies[i] # None

\* C19: no turn of the loop calls send_message for a chat whose last call was
\* /unsubscribe (or that never called /subscribe).
C19_UnsubscribeStops ==
  [][ (up' /\ pc # "send" /\ pc' = "send") => want[cur'.chat_id.id] # None ]_vars

====
